---- MODULE Spec2Model ----
(***************************************************************************)
(* kaleidoscope: a redirector to Arch Linux mirrors.                       *)
(*                                                                         *)
(* The repository holds two variants of the program:                       *)
(*   "rand"  src/kaleidoscope.go     getData, methodOnly, makeGlobalHandler, *)
(*                                   makeCountryHandler (random pick)      *)
(*   "sel"   src/unnamed/part_000    getMirrorInfo, redirector, selectors, *)
(*                                   readiness channel (best-ranked pick)  *)
(*                                                                         *)
(* Floats are modelled as integers: Completion (completion_pct) in percent *)
(* (1.0 is 100), Score as a small integer.  A request path is a sequence   *)
(* of one-character strings.  A *Mirror / *MirrorStatus pointer is a slot  *)
(* of the heap; the nil pointer is Nil.                                    *)
(***************************************************************************)
EXTENDS Integers, Sequences, FiniteSets, TLC

VARIABLES
    payload,        \* builder harness: the decoded upstream document
    minCompletion,  \* conf.minCompletion, in percent
    built,          \* builder harness: what the builder returned
    bpc,            \* builder harness: position
    variant,        \* which of the two programs runs: "rand" or "sel"
    heap,           \* the MirrorStatus objects: slot -> MirrorStatus or Free
    status,         \* the atomic.Value of main: Nil until the first Store
    upc,            \* update: position in the loop
    newM,           \* update: the pointer the builder returned
    prev,           \* update: what preceded the fetch about to start
    once,           \* update: whether sync.Once has run its function
    doneClosed,     \* whether close(done) has run
    signals,        \* how many values main has received from done
    mainpc,         \* main: "wait" at <-done, "serve" in ListenAndServe
    hs,             \* the request goroutines: handler -> its state
    track,          \* history: whether the history below is recorded
    attempt,        \* history: parity of the fetches made so far
    fails,          \* history: fetches that failed before the first Store
    pubs,           \* history: how many times status.Store has run
    pubNo,          \* history: slot -> which Store published its object
    seen            \* history: handler -> the publish its last Load returned

bvars == <<payload, built, bpc>>
uvars == <<heap, status, upc, newM, prev, once, doneClosed, signals, mainpc>>
svars == <<variant, uvars, hs>>
hvars == <<track, attempt, fails, pubs, pubNo, seen>>
vars == <<minCompletion, bvars, svars, hvars>>

\* ------------------------------------------------------------------ bounds

MaxLen == 3

\* recorded history: failed fetches before the first publish, and publishes
MaxFails == 2
MaxPublish == 2

\* the longest request path (after the mount prefix) of the request harness
MaxPathLen == 7

\* ------------------------------------------------------------- mirror data

Protocols == {"http", "https"}
Completions == {50, 100}
Thresholds == {50, 100}
CountryCodes == {"US", "DE"}
Scores == {1, 2}

\* A mirror URL, as url.Parse sees it: ok is whether it parses, host and path
\* are what it parses to.  The URL of the i-th mirror of a document:
BadURL == [ok |-> FALSE, host |-> "?", path |-> <<>>]
GoodURL(h, p) == [ok |-> TRUE, host |-> h, path |-> p]

MirrorURL(i) ==
    CASE i = 1 -> GoodURL("m1", <<"/", "a", "/">>)
      [] i = 2 -> GoodURL("m2", <<>>)
      [] i = 3 -> BadURL
      [] OTHER -> GoodURL("mx", <<"/">>)

\* the part of a Mirror the upstream document decides, without its identity
MirrorFields == [Protocol : Protocols, Completion : Completions,
                 CountryCode : CountryCodes, Score : Scores]

\* json.Decode allocates one Mirror per element of "urls": id is the identity
\* of that object (its position in the upstream document)
Mirror(i, f) ==
    [id |-> i, Protocol |-> f.Protocol, Completion |-> f.Completion,
     CountryCode |-> f.CountryCode, Score |-> f.Score, URL |-> MirrorURL(i)]

DecodeURLs(fs) == [i \in 1..Len(fs) |-> Mirror(i, fs[i])]

SeqsUpTo(S, n) == UNION {[1..k -> S] : k \in 0..n}

Payloads == {DecodeURLs(fs) : fs \in SeqsUpTo(MirrorFields, MaxLen)}

\* --------------------------------------------------------------- the sort

\* a Less that also holds of equal scores
ByScoreLessOrEqual(s, i, j) == s[i].Score <= s[j].Score

\* ByScore.Less
ByScoreLess(s, i, j) == s[i].Score < s[j].Score

\* ByScore.Swap
ByScoreSwap(s, i, j) == [s EXCEPT ![i] = s[j], ![j] = s[i]]

\* sort.Reverse(ByScore(..)).Less(i, j) is ByScore.Less(j, i)
ReverseLess(s, i, j) == ByScoreLess(s, j, i)

\* the inner loop of insertionSort: for j := i; j > a && Less(j, j-1); j--
RECURSIVE SortInner(_, _)
SortInner(s, j) ==
    IF j > 1 /\ ReverseLess(s, j, j - 1)
    THEN SortInner(ByScoreSwap(s, j, j - 1), j - 1)
    ELSE s

\* the outer loop of insertionSort: for i := a + 1; i < b; i++
RECURSIVE SortOuter(_, _)
SortOuter(s, i) ==
    IF i > Len(s) THEN s ELSE SortOuter(SortInner(s, i), i + 1)

\* sort.Stable on fewer than 20 elements is one insertionSort over the slice
SortStableReverseByScore(s) == SortOuter(s, 2)

\* ------------------------------------------------------------- the filter

isHTTP(mirror) == mirror.Protocol = "http"

\* a completion test that drops the mirrors exactly at the threshold
isCompleteStrict(mirror, minC) == mirror.Completion > minC

isComplete(mirror, minC) == mirror.Completion >= minC

\* a bucket update that puts the mirror in front of its bucket
PrependCountry(countries, mirror) ==
    LET cc == mirror.CountryCode
        country == IF cc \in DOMAIN countries THEN countries[cc] ELSE <<>>
    IN  [c \in DOMAIN countries \cup {cc} |->
            IF c = cc THEN <<mirror>> \o country ELSE countries[c]]

\* m.Countries[mirror.CountryCode] = append(country, mirror), the bucket made
\* on first use
AppendCountry(countries, mirror) ==
    LET cc == mirror.CountryCode
        country == IF cc \in DOMAIN countries THEN countries[cc] ELSE <<>>
    IN  [c \in DOMAIN countries \cup {cc} |->
            IF c = cc THEN Append(country, mirror) ELSE countries[c]]

EmptyCountries == [c \in {} |-> <<>>]

\* one iteration of the loop of getMirrorInfo over the sorted list
MirrorInfoStep(acc, mirror, minC) ==
    IF isHTTP(mirror) /\ isComplete(mirror, minC)
    THEN [Global |-> Append(acc.Global, mirror),
          Countries |-> AppendCountry(acc.Countries, mirror)]
    ELSE acc

RECURSIVE MirrorInfoLoop(_, _, _, _)
MirrorInfoLoop(list, i, acc, minC) ==
    IF i > Len(list) THEN acc
    ELSE MirrorInfoLoop(list, i + 1, MirrorInfoStep(acc, list[i], minC), minC)

\* getMirrorInfo after a successful fetch and decode of urls
getMirrorInfo(urls, minC) ==
    MirrorInfoLoop(SortStableReverseByScore(urls), 1,
                   [Global |-> <<>>, Countries |-> EmptyCountries], minC)

\* one iteration of the loop of getData: no sort, no country index
DataStep(newURLs, url, minC) ==
    IF isHTTP(url) /\ isComplete(url, minC) THEN Append(newURLs, url) ELSE newURLs

RECURSIVE DataLoop(_, _, _, _)
DataLoop(list, i, newURLs, minC) ==
    IF i > Len(list) THEN newURLs
    ELSE DataLoop(list, i + 1, DataStep(newURLs, list[i], minC), minC)

\* getData after a successful fetch and decode of urls; the variant has no
\* Countries field (an empty map stands for it)
getData(urls, minC) ==
    [Global |-> DataLoop(urls, 1, <<>>, minC), Countries |-> EmptyCountries]

\* ------------------------------------------------------- request paths

\* the letters the request paths of the model are written with
LowerSeq == <<"a", "b", "c", "d", "e", "g", "l", "n", "o", "r", "s", "t", "u", "x", "y">>
UpperSeq == <<"A", "B", "C", "D", "E", "G", "L", "N", "O", "R", "S", "T", "U", "X", "Y">>
Lower == {LowerSeq[i] : i \in 1..Len(LowerSeq)}
Upper == {UpperSeq[i] : i \in 1..Len(UpperSeq)}

\* strings.ToUpper on one character
ToUpperChar(ch) ==
    IF ch \in Lower
    THEN UpperSeq[CHOOSE i \in 1..Len(LowerSeq) : LowerSeq[i] = ch]
    ELSE ch

\* two characters as the string the Countries map is keyed by: the codes of
\* CountryCodes, and one string for every other pair (no mirror carries it)
CodeString(c1, c2) ==
    CASE <<c1, c2>> = <<"U", "S">> -> "US"
      [] <<c1, c2>> = <<"D", "E">> -> "DE"
      [] OTHER -> "??"

\* strings.ToUpper(res[1]) for a two-letter submatch
ToUpperCode(c1, c2) == CodeString(ToUpperChar(c1), ToUpperChar(c2))

\* p[n:]
Drop(p, n) == SubSeq(p, n + 1, Len(p))

CountryPrefix == <<"/", "c", "o", "u", "n", "t", "r", "y">>
GlobalPrefix == <<"/", "g", "l", "o", "b", "a", "l">>

\* the regexp of countrySelector, ^/([a-z]{2})(?:/|$): the length of res[0],
\* 0 when the path does not match
SelMatchLen(p) ==
    IF /\ Len(p) >= 3
       /\ p[1] = "/"
       /\ p[2] \in Lower
       /\ p[3] \in Lower
       /\ (Len(p) = 3 \/ p[4] = "/")
    THEN (IF Len(p) = 3 THEN 3 ELSE 4)
    ELSE 0

\* the regexp of makeCountryHandler, /([A-Za-z]{2})$
RandMatches(p) ==
    /\ Len(p) >= 3
    /\ p[Len(p) - 2] = "/"
    /\ p[Len(p) - 1] \in Lower \cup Upper
    /\ p[Len(p)] \in Lower \cup Upper

\* path.Clean on a path of letters and slashes (no dot segments): runs of
\* slashes collapse, a trailing slash goes unless the path is the root, and
\* the empty path is "."
RECURSIVE Collapse(_)
Collapse(p) ==
    IF Len(p) = 0 THEN <<>>
    ELSE IF Len(p) >= 2 /\ p[1] = "/" /\ p[2] = "/" THEN Collapse(Tail(p))
    ELSE <<p[1]>> \o Collapse(Tail(p))

CleanPath(p) ==
    LET c == Collapse(p)
    IN  IF Len(c) = 0 THEN <<".">>
        ELSE IF Len(c) > 1 /\ c[Len(c)] = "/" THEN SubSeq(c, 1, Len(c) - 1)
        ELSE c

\* path.Join(a, b): the non-empty elements joined by a slash, then cleaned;
\* the empty string when both are empty
PathJoin(a, b) ==
    IF Len(a) = 0 /\ Len(b) = 0 THEN <<>>
    ELSE IF Len(a) = 0 THEN CleanPath(b)
    ELSE IF Len(b) = 0 THEN CleanPath(a)
    ELSE CleanPath(a \o <<"/">> \o b)

\* --------------------------------------------------------------- requests

\* the request paths the mux of main routes to each handler
SelGlobalPaths == {GlobalPrefix \o <<"/">>}
SelCountryPaths ==
    {CountryPrefix \o <<"/", "u", "s">>,
     CountryPrefix \o <<"/", "d", "e", "/", "x">>,
     CountryPrefix \o <<"/", "u">>}
RandGlobalPaths == {GlobalPrefix}
RandCountryPaths ==
    {CountryPrefix \o <<"/", "u", "s">>,
     CountryPrefix \o <<"/", "D", "E">>,
     CountryPrefix \o <<"/", "u">>}

Request(m, k, p) == [method |-> m, kind |-> k, path |-> p]

\* every path with GET, and one path of each handler with POST
Requests(v) ==
    IF v = "sel"
    THEN {Request("GET", "global", p) : p \in SelGlobalPaths}
         \cup {Request("GET", "country", p) : p \in SelCountryPaths}
         \cup {Request("POST", "global", GlobalPrefix \o <<"/">>),
               Request("POST", "country", CountryPrefix \o <<"/", "u", "s">>)}
    ELSE {Request("GET", "global", p) : p \in RandGlobalPaths}
         \cup {Request("GET", "country", p) : p \in RandCountryPaths}
         \cup {Request("POST", "global", GlobalPrefix),
               Request("POST", "country", CountryPrefix \o <<"/", "u", "s">>)}

\* ------------------------------------------------------------------- heap

Handlers == {"h1", "h2"}

Nil == 0
Slots == 1..(Cardinality(Handlers) + 2)
Free == [Global |-> <<>>, Countries |-> EmptyCountries, live |-> FALSE]

\* a freshly built MirrorStatus as a heap object
Object(m) == [Global |-> m.Global, Countries |-> m.Countries, live |-> TRUE]

\* the slots some goroutine or the atomic.Value still points to
Referenced ==
    ({status, newM} \cup {hs[h].c : h \in Handlers}) \ {Nil}

\* the garbage collector: an object nothing points to any more is gone
Collect(hp, refs) == [s \in Slots |-> IF s \in refs THEN hp[s] ELSE Free]

\* a builder that fills the object the atomic.Value already points to
ReusedSlot == IF status # Nil THEN status
              ELSE CHOOSE s \in Slots \ Referenced : \A t \in Slots \ Referenced : s <= t

\* `var m MirrorStatus` of the builder: a new object, in a slot nothing refers to
NewSlot == CHOOSE s \in Slots \ Referenced : \A t \in Slots \ Referenced : s <= t

\* the upstream documents a fetch of the running program may decode
SysPayloads ==
    {DecodeURLs(<<[Protocol |-> "http", Completion |-> 100, CountryCode |-> "US", Score |-> 1],
                  [Protocol |-> "http", Completion |-> 100, CountryCode |-> "US", Score |-> 2],
                  [Protocol |-> "http", Completion |-> 50, CountryCode |-> "DE", Score |-> 2]>>),
     DecodeURLs(<<[Protocol |-> "https", Completion |-> 100, CountryCode |-> "US", Score |-> 2],
                  [Protocol |-> "http", Completion |-> 50, CountryCode |-> "DE", Score |-> 1]>>)}

\* the builder of the running variant
Builder(v, urls, minC) ==
    IF v = "sel" THEN getMirrorInfo(urls, minC) ELSE getData(urls, minC)

\* ------------------------------------------------------------- the history

\* the history before the program has run
NoHistory ==
    /\ attempt = 0
    /\ fails = 0
    /\ pubs = 0
    /\ pubNo = [s \in Slots |-> 0]
    /\ seen = [h \in Handlers |-> 0]

\* a fetch returns: one more attempt, one more failure before the first Store
RecordAttempt(failed) ==
    /\ attempt' = IF track THEN 1 - attempt ELSE attempt
    /\ fails' = IF track /\ failed /\ status = Nil THEN fails + 1 ELSE fails
    /\ UNCHANGED <<track, pubs, pubNo, seen>>

\* the publish numbers of the objects that are still pointed to
Numbered(refs) == [s \in Slots |-> IF s \in refs THEN pubNo[s] ELSE 0]

\* status.Store(newM) is the next publish
RecordPublish ==
    /\ pubs' = IF track THEN pubs + 1 ELSE pubs
    /\ pubNo' = IF track THEN [Numbered(Referenced') EXCEPT ![newM] = pubs + 1] ELSE pubNo
    /\ UNCHANGED <<track, attempt, fails, seen>>

\* status.Load() of handler h returned the object of some publish
RecordRead(h) ==
    /\ seen' = IF track /\ hs'[h].c # Nil THEN [seen EXCEPT ![h] = pubNo[hs'[h].c]] ELSE seen
    /\ UNCHANGED <<track, attempt, fails, pubs, pubNo>>

\* an object is collected
RecordCollect ==
    /\ pubNo' = IF track THEN Numbered(Referenced') ELSE pubNo
    /\ UNCHANGED <<track, attempt, fails, pubs, seen>>

\* ------------------------------------------------------------- the updater

\* an error branch that stores the nil pointer the builder returned
StatusClearedOnError(st) == Nil

\* what a failed getData / getMirrorInfo leaves in the atomic.Value
StatusAfterError(st) == st

\* an error branch that returns from update instead of going on
AfterErrorStops == "stopped"

\* the loop position after the error branch: `continue` goes back to the fetch
AfterError == "fetch"

\* a fetch that fails: http.Get or Decode returns an error
UpdateFetchFail ==
    /\ upc = "fetch"
    /\ (track /\ status = Nil) => fails < MaxFails
    /\ status' = StatusAfterError(status)
    /\ upc' = AfterError
    /\ prev' = "failed"
    /\ UNCHANGED <<heap, newM, once, doneClosed, signals, mainpc, variant,
                   minCompletion, hs, bvars>>
    /\ RecordAttempt(TRUE)

\* a fetch that succeeds: the builder returns a pointer to a new MirrorStatus
UpdateFetchOK ==
    /\ upc = "fetch"
    /\ track => pubs < MaxPublish
    /\ \E urls \in SysPayloads :
          heap' = [heap EXCEPT ![NewSlot] = Object(Builder(variant, urls, minCompletion))]
    /\ newM' = NewSlot
    /\ upc' = "store"
    /\ prev' = "ok"
    /\ UNCHANGED <<status, once, doneClosed, signals, mainpc, variant,
                   minCompletion, hs, bvars>>
    /\ RecordAttempt(FALSE)

\* a signal sent after every publish, without the sync.Once
AlwaysRuns(o) == TRUE

\* sync.Once.Do runs its function only the first time
OnceRuns(o) == ~o

\* status.Store(newM)
UpdateStore ==
    /\ upc = "store"
    /\ status' = newM
    /\ newM' = Nil
    /\ upc' = IF variant = "sel" /\ OnceRuns(once) THEN "send" ELSE "tick"
    /\ once' = IF variant = "sel" THEN TRUE ELSE once
    /\ UNCHANGED <<prev, doneClosed, signals, mainpc, variant,
                   minCompletion, hs, bvars>>
    /\ heap' = Collect(heap, Referenced')
    /\ RecordPublish

\* done <- true, on the unbuffered channel: main receives it at <-done; a send
\* on a closed channel panics
UpdateSendDone ==
    /\ upc = "send"
    /\ doneClosed \/ mainpc = "wait"
    /\ IF doneClosed
       THEN /\ upc' = "panic"
            /\ UNCHANGED <<signals, mainpc>>
       ELSE /\ upc' = "close"
            /\ signals' = signals + 1
            /\ mainpc' = "serve"
    /\ UNCHANGED <<heap, status, newM, prev, once, doneClosed, variant,
                   minCompletion, hs, bvars, hvars>>

\* close(done)
UpdateCloseDone ==
    /\ upc = "close"
    /\ doneClosed' = TRUE
    /\ upc' = IF doneClosed THEN "panic" ELSE "tick"
    /\ UNCHANGED <<heap, status, newM, prev, once, signals, mainpc, variant,
                   minCompletion, hs, bvars, hvars>>

\* <-ticker.C: the ticker fires and the loop takes the tick
UpdateTick ==
    /\ upc = "tick"
    /\ upc' = "fetch"
    /\ prev' = "tick"
    /\ UNCHANGED <<heap, status, newM, once, doneClosed, signals, mainpc, variant,
                   minCompletion, hs, bvars, hvars>>

\* ------------------------------------------------------------ the handlers

NoMirror == [id |-> 0]

Idle == [pc |-> "idle", req |-> Request("GET", "global", <<>>), path |-> <<>>,
         c |-> Nil, resp |-> <<>>, mirror |-> NoMirror]

\* one write of a response: the status code and the Location header
Write(code) == [code |-> code, loc |-> <<>>]
Redirect(host, p) == [code |-> 302, loc |-> <<host, p>>]

\* a handler without the method check
AnyMethodAllowed(req) == TRUE

\* the method check of redirector and of methodOnly
MethodAllowed(req) == req.method = "GET"

\* http.StripPrefix in main of the selector variant: the path without the prefix
StripPrefix(req) ==
    Drop(req.path, IF req.kind = "country" THEN Len(CountryPrefix) ELSE Len(GlobalPrefix))

\* a request of reqs arrives once ListenAndServe runs, and the handler runs up
\* to its status.Load()
AcceptFrom(h, reqs) ==
    /\ mainpc = "serve"
    /\ hs[h].pc \in {"idle", "done", "panic"}
    /\ \E req \in reqs :
          LET p == IF variant = "sel" THEN StripPrefix(req) ELSE req.path
              r == [Idle EXCEPT !.req = req, !.path = p]
          IN  hs' = [hs EXCEPT ![h] =
                IF ~MethodAllowed(req)
                THEN [r EXCEPT !.pc = "done", !.resp = <<Write(405)>>]
                ELSE IF variant = "rand" /\ req.kind = "country" /\ ~RandMatches(p)
                THEN [r EXCEPT !.pc = "done", !.resp = <<Write(404)>>]
                ELSE [r EXCEPT !.pc = "load"]]
    /\ UNCHANGED <<status, upc, newM, prev, once, doneClosed, signals, mainpc,
                   variant, minCompletion, bvars>>
    /\ heap' = Collect(heap, Referenced')
    /\ RecordCollect

Accept(h) == AcceptFrom(h, Requests(variant))

\* a Load that may return a pointer some goroutine read earlier
StaleLoad ==
    IF \E h \in Handlers : hs[h].c # Nil
    THEN hs[CHOOSE h \in Handlers : hs[h].c # Nil].c
    ELSE status

\* what status.Load() returns: the pointer of the last Store
AtomicLoad == status

\* status.Load().(*MirrorStatus): the assertion panics on the nil interface of
\* an atomic.Value nothing was stored in
Load(h) ==
    /\ hs[h].pc = "load"
    /\ hs' = [hs EXCEPT ![h] =
          IF status = Nil
          THEN [@ EXCEPT !.pc = "panic"]
          ELSE [@ EXCEPT !.pc = "loaded", !.c = AtomicLoad]]
    /\ UNCHANGED <<uvars, variant, minCompletion, bvars>>
    /\ RecordRead(h)

\* a handler that loads the atomic.Value again for each decision
SnapshotReloaded(h) == heap[status]

\* the MirrorStatus the rest of the handler works on: the pointer it loaded
Snapshot(h) == heap[hs[h].c]

\* a global selector that returns the last mirror of the list
globalSelectorLast(st, p) == [ok |-> TRUE, mirror |-> st.Global[Len(st.Global)], path |-> p]

\* globalSelector
globalSelector(st, p) == [ok |-> TRUE, mirror |-> st.Global[1], path |-> p]

\* a country selector that cuts the path before the lookup of the code
countrySelectorCutsFirst(st, p) ==
    LET n == SelMatchLen(p)
        code == ToUpperCode(p[2], p[3])
    IN  IF n = 0 THEN [ok |-> FALSE, mirror |-> NoMirror, path |-> p]
        ELSE IF code \notin DOMAIN st.Countries
        THEN [ok |-> FALSE, mirror |-> NoMirror, path |-> Drop(p, n)]
        ELSE [ok |-> TRUE, mirror |-> st.Countries[code][1], path |-> Drop(p, n)]

\* a country selector that leaves the request path as it was
countrySelectorKeepsPath(st, p) ==
    LET n == SelMatchLen(p)
        code == ToUpperCode(p[2], p[3])
    IN  IF n = 0 THEN [ok |-> FALSE, mirror |-> NoMirror, path |-> p]
        ELSE IF code \notin DOMAIN st.Countries
        THEN [ok |-> FALSE, mirror |-> NoMirror, path |-> p]
        ELSE [ok |-> TRUE, mirror |-> st.Countries[code][1], path |-> p]

\* countrySelector
countrySelector(st, p) ==
    LET n == SelMatchLen(p)
        code == ToUpperCode(p[2], p[3])
    IN  IF n = 0 THEN [ok |-> FALSE, mirror |-> NoMirror, path |-> p]
        ELSE IF code \notin DOMAIN st.Countries
        THEN [ok |-> FALSE, mirror |-> NoMirror, path |-> p]
        ELSE [ok |-> TRUE, mirror |-> st.Countries[code][1], path |-> Drop(p, n)]

\* redirector, from the emptiness check to the response
Redirector(h) ==
    /\ variant = "sel"
    /\ hs[h].pc = "loaded"
    /\ LET st == Snapshot(h)
           r == hs[h]
           sel == IF r.req.kind = "global" THEN globalSelector(st, r.path)
                  ELSE countrySelector(st, r.path)
       IN  hs' = [hs EXCEPT ![h] =
             IF Len(st.Global) = 0
             THEN [r EXCEPT !.pc = "done", !.resp = <<Write(500)>>]
             ELSE IF ~sel.ok
             THEN [r EXCEPT !.pc = "done", !.resp = <<Write(404)>>, !.path = sel.path]
             ELSE IF ~sel.mirror.URL.ok
             THEN [r EXCEPT !.pc = "done", !.resp = <<Write(500)>>,
                            !.mirror = sel.mirror, !.path = sel.path]
             ELSE [r EXCEPT !.pc = "done", !.mirror = sel.mirror, !.path = sel.path,
                            !.resp = <<Redirect(sel.mirror.URL.host,
                                        PathJoin(sel.mirror.URL.path, sel.path))>>]]
    /\ UNCHANGED <<uvars, variant, minCompletion, bvars, hvars>>

\* what the handlers of the random variant write when the list is empty: the
\* 500, after which the function goes on
EmptyListWrites(st) == IF Len(st.Global) = 0 THEN <<Write(500)>> ELSE <<>>

\* the handler of makeGlobalHandler after its Load: rand.Intn(0) panics
GlobalHandler(h) ==
    /\ variant = "rand"
    /\ hs[h].pc = "loaded"
    /\ hs[h].req.kind = "global"
    /\ LET st == Snapshot(h)
           r == hs[h]
       IN  IF Len(st.Global) = 0
           THEN hs' = [hs EXCEPT ![h] = [r EXCEPT !.pc = "panic", !.resp = EmptyListWrites(st)]]
           ELSE \E pick \in 1..Len(st.Global) :
                  hs' = [hs EXCEPT ![h] =
                     [r EXCEPT !.pc = "done", !.mirror = st.Global[pick],
                               !.resp = EmptyListWrites(st)
                                        \o <<Redirect(st.Global[pick].URL.host,
                                                      st.Global[pick].URL.path)>>]]
    /\ UNCHANGED <<uvars, variant, minCompletion, bvars, hvars>>

FullCompletion == 100

\* the per-request filter of makeCountryHandler
CountryCandidates(st, code) ==
    SelectSeq(st.Global,
              LAMBDA m : m.CountryCode = code /\ m.Completion >= FullCompletion)

\* the handler of makeCountryHandler after its Load
CountryHandler(h) ==
    /\ variant = "rand"
    /\ hs[h].pc = "loaded"
    /\ hs[h].req.kind = "country"
    /\ LET st == Snapshot(h)
           r == hs[h]
           p == r.path
           res == CountryCandidates(st, ToUpperCode(p[Len(p) - 1], p[Len(p)]))
       IN  IF Len(res) = 0
           THEN hs' = [hs EXCEPT ![h] =
                  [r EXCEPT !.pc = "done", !.resp = EmptyListWrites(st) \o <<Write(404)>>]]
           ELSE \E pick \in 1..Len(res) :
                  hs' = [hs EXCEPT ![h] =
                     [r EXCEPT !.pc = "done", !.mirror = res[pick],
                               !.resp = EmptyListWrites(st)
                                        \o <<Redirect(res[pick].URL.host,
                                                      res[pick].URL.path)>>]]
    /\ UNCHANGED <<uvars, variant, minCompletion, bvars, hvars>>

\* ------------------------------------------------------------ the program

\* a main that listens without waiting for the first publish
MainServesAtOnce(v) == "serve"

\* where main is once the goroutine of update runs: at <-done in the selector
\* variant, in ListenAndServe in the random variant
MainStart(v) == IF v = "sel" THEN "wait" ELSE "serve"

ProgramStart ==
    /\ variant \in {"rand", "sel"}
    /\ minCompletion \in Thresholds
    /\ heap = [s \in Slots |-> Free]
    /\ status = Nil
    /\ upc = "fetch"
    /\ newM = Nil
    /\ prev = "start"
    /\ once = FALSE
    /\ doneClosed = FALSE
    /\ signals = 0
    /\ mainpc = MainStart(variant)
    /\ hs = [h \in Handlers |-> Idle]
    /\ payload = <<>>
    /\ built = Free
    /\ bpc = "program"
    /\ NoHistory

Init == ProgramStart /\ track = FALSE

Next ==
    \/ UpdateFetchFail
    \/ UpdateFetchOK
    \/ UpdateStore
    \/ UpdateSendDone
    \/ UpdateCloseDone
    \/ UpdateTick
    \/ \E h \in Handlers : Accept(h)
    \/ \E h \in Handlers : Load(h)
    \/ \E h \in Handlers : Redirector(h)
    \/ \E h \in Handlers : GlobalHandler(h)
    \/ \E h \in Handlers : CountryHandler(h)

Spec == Init /\ [][Next]_vars

\* ------------------------------------------------------ builder harness

NotBuilt == [Global |-> <<>>, Countries |-> EmptyCountries]

BInit ==
    /\ payload \in Payloads
    /\ minCompletion \in Thresholds
    /\ built = NotBuilt
    /\ bpc = "decoded"
    /\ variant = "none"
    /\ heap = [s \in Slots |-> Free]
    /\ status = Nil
    /\ upc = "off"
    /\ newM = Nil
    /\ prev = "start"
    /\ once = FALSE
    /\ doneClosed = FALSE
    /\ signals = 0
    /\ mainpc = "off"
    /\ hs = [h \in Handlers |-> Idle]
    /\ NoHistory
    /\ track = FALSE

\* getMirrorInfo applied to the decoded document
BuildMirrorInfo ==
    /\ bpc = "decoded"
    /\ built' = getMirrorInfo(payload, minCompletion)
    /\ bpc' = "sel"
    /\ UNCHANGED <<payload, minCompletion, svars, hvars>>

\* getData applied to the decoded document
BuildData ==
    /\ bpc = "decoded"
    /\ built' = getData(payload, minCompletion)
    /\ bpc' = "rand"
    /\ UNCHANGED <<payload, minCompletion, svars, hvars>>

BNext == BuildMirrorInfo \/ BuildData

SpecBuild == BInit /\ [][BNext]_vars

\* ------------------------------------------------------ request harness

\* the characters the request paths of the harness are written with
PathChars == {"/", "u", "s", "U"}

\* a path the mux hands to a handler: it redirects a path with "//" itself
NoDoubleSlash(p) == \A i \in 1..(Len(p) - 1) : ~(p[i] = "/" /\ p[i + 1] = "/")

\* the paths below a mount prefix: a slash, then up to MaxPathLen - 1 characters
WidePaths ==
    {<<"/">> \o q : q \in {q \in SeqsUpTo(PathChars, MaxPathLen - 1) : NoDoubleSlash(<<"/">> \o q)}}

WideRequests(v) ==
    {Request("GET", "country", CountryPrefix \o p) : p \in WidePaths}
    \cup {Request("GET", "global", IF v = "sel" THEN GlobalPrefix \o <<"/">> ELSE GlobalPrefix)}

\* the upstream documents behind the MirrorStatus the harness serves from
ReqPayloads ==
    SysPayloads
    \cup {DecodeURLs(<<[Protocol |-> "http", Completion |-> 100, CountryCode |-> "US", Score |-> 2],
                       [Protocol |-> "http", Completion |-> 100, CountryCode |-> "US", Score |-> 1]>>),
          DecodeURLs(<<[Protocol |-> "http", Completion |-> 100, CountryCode |-> "DE", Score |-> 2],
                       [Protocol |-> "http", Completion |-> 100, CountryCode |-> "US", Score |-> 1],
                       [Protocol |-> "http", Completion |-> 100, CountryCode |-> "US", Score |-> 1]>>)}

\* the program after a publish, the server listening, the updater left out
RInit ==
    /\ variant \in {"rand", "sel"}
    /\ minCompletion \in Thresholds
    /\ \E urls \in ReqPayloads :
          heap = [s \in Slots |->
                    IF s = 1 THEN Object(Builder(variant, urls, minCompletion)) ELSE Free]
    /\ status = 1
    /\ upc = "off"
    /\ newM = Nil
    /\ prev = "start"
    /\ once = (variant = "sel")
    /\ doneClosed = (variant = "sel")
    /\ signals = IF variant = "sel" THEN 1 ELSE 0
    /\ mainpc = "serve"
    /\ hs = [h \in Handlers |-> Idle]
    /\ payload = <<>>
    /\ built = Free
    /\ bpc = "requests"
    /\ NoHistory
    /\ track = FALSE

\* one request goroutine that serves one request, any request of the harness
RAccept == hs["h1"].pc = "idle" /\ AcceptFrom("h1", WideRequests(variant))
RLoad == Load("h1")
RRedirector == Redirector("h1")
RGlobalHandler == GlobalHandler("h1")
RCountryHandler == CountryHandler("h1")

RNext == RAccept \/ RLoad \/ RRedirector \/ RGlobalHandler \/ RCountryHandler

SpecReq == RInit /\ [][RNext]_vars

\* ------------------------------------------------------ history harness

\* the requests of the history harness: one of each handler
HistRequests(v) ==
    {Request("GET", "global", IF v = "sel" THEN GlobalPrefix \o <<"/">> ELSE GlobalPrefix),
     Request("GET", "country", CountryPrefix \o <<"/", "u", "s">>)}

\* the program from its start, its history recorded
HInit == ProgramStart /\ track = TRUE

HAccept == \E h \in Handlers : AcceptFrom(h, HistRequests(variant))
HLoad == \E h \in Handlers : Load(h)
HRedirector == \E h \in Handlers : Redirector(h)
HGlobalHandler == \E h \in Handlers : GlobalHandler(h)
HCountryHandler == \E h \in Handlers : CountryHandler(h)

HNext ==
    \/ UpdateFetchFail
    \/ UpdateFetchOK
    \/ UpdateStore
    \/ UpdateSendDone
    \/ UpdateCloseDone
    \/ UpdateTick
    \/ HAccept
    \/ HLoad
    \/ HRedirector
    \/ HGlobalHandler
    \/ HCountryHandler

SpecHist == HInit /\ [][HNext]_vars

\* what the scheduler, the network and the ticker grant the loop: a fetch
\* returns, a statement that can run does, main takes the value sent on done,
\* the ticker fires
Fairness ==
    /\ WF_vars(UpdateFetchFail \/ UpdateFetchOK)
    /\ WF_vars(UpdateStore)
    /\ WF_vars(UpdateSendDone)
    /\ WF_vars(UpdateCloseDone)
    /\ WF_vars(UpdateTick)

SpecLive == HInit /\ [][HNext]_vars /\ Fairness

\* ================================================================ claims

Range(q) == {q[i] : i \in 1..Len(q)}

\* the MirrorStatus objects a successful fetch of the running program can build
BuiltObjects ==
    {Object(Builder(variant, urls, minCompletion)) : urls \in SysPayloads}

\* the handlers that hold a loaded pointer
Holding == {h \in Handlers : hs[h].pc \in {"loaded", "done", "panic"} /\ hs[h].c # Nil}

Redirected(h) == Len(hs[h].resp) > 0 /\ hs[h].resp[Len(hs[h].resp)].code = 302

\* C1: whatever the interleaving of publishes and handlers, the pointer a
\* handler loaded is one whole published MirrorStatus (all its fields from one
\* build), and the emptiness check, the selection and the redirect target of
\* the request are all taken from that one MirrorStatus.
C1_OneWholeSnapshot ==
    \A h \in Holding :
        LET r == hs[h]
            st == heap[r.c]
        IN  /\ st \in BuiltObjects
            /\ r.pc \in {"done", "panic"} =>
                  /\ (Len(st.Global) = 0) => (r.mirror = NoMirror /\ r.resp[1].code = 500)
                  /\ (Len(st.Global) > 0 /\ r.mirror = NoMirror) => r.resp = <<Write(404)>>
                  /\ r.mirror # NoMirror => r.mirror \in Range(st.Global)
                  /\ Redirected(h) =>
                        /\ r.mirror # NoMirror
                        /\ r.resp[Len(r.resp)].loc[1] = r.mirror.URL.host
                  /\ (variant = "sel" /\ r.req.kind = "country" /\ r.mirror # NoMirror) =>
                        /\ r.mirror.CountryCode \in DOMAIN st.Countries
                        /\ r.mirror = st.Countries[r.mirror.CountryCode][1]

\* C1 witness: one handler has answered with a redirect from the MirrorStatus
\* it loaded before a publish, the other holds the newly published one.
C1_Witness ==
    \E h, g \in Handlers :
        /\ hs[h].pc = "done" /\ Redirected(h)
        /\ hs[h].c # Nil /\ hs[h].c # status
        /\ hs[g].pc = "loaded" /\ hs[g].c = status
        /\ heap[hs[h].c] # heap[status]

\* C2: a failed fetch leaves the atomic.Value pointing where it pointed, and
\* every MirrorStatus as it was.
C2_FailedFetchKeepsSnapshot ==
    [][UpdateFetchFail => (status' = status /\ heap' = heap)]_vars

\* C2 witness: after a publish a fetch has failed, and a handler has loaded
\* the MirrorStatus published before the failure.
C2_Witness ==
    /\ prev = "failed" /\ upc = "fetch" /\ status # Nil
    /\ \E h \in Handlers : hs[h].pc = "loaded" /\ hs[h].c = status

\* the builder has returned
Built == bpc \in {"sel", "rand"}

\* C3: the list the builder returns holds exactly the upstream records whose
\* protocol is "http" and whose completion is at least the threshold, each once.
C3_FilterExact ==
    Built =>
        /\ \A i \in 1..Len(payload) :
              LET keep == payload[i].Protocol = "http"
                          /\ payload[i].Completion >= minCompletion
              IN  Cardinality({k \in 1..Len(built.Global) : built.Global[k] = payload[i]})
                  = (IF keep THEN 1 ELSE 0)
        /\ Range(built.Global) \subseteq Range(payload)

\* C3 witness: of three upstream records one is kept, one is dropped for its
\* protocol and one for its completion.
C3_Witness ==
    /\ Built
    /\ Len(payload) = 3 /\ Len(built.Global) = 1
    /\ \E i, j \in 1..3 :
          /\ payload[i].Protocol = "https" /\ payload[i].Completion >= minCompletion
          /\ payload[j].Protocol = "http" /\ payload[j].Completion < minCompletion

\* C4: in the MirrorStatus getMirrorInfo returns, the bucket of a country code
\* is the sub-list of Global with that code, in Global's order, and the codes
\* with a bucket are exactly the codes of the retained records.
C4_CountryIndex ==
    bpc = "sel" =>
        /\ DOMAIN built.Countries = {m.CountryCode : m \in Range(built.Global)}
        /\ \A c \in DOMAIN built.Countries :
              built.Countries[c] = SelectSeq(built.Global, LAMBDA m : m.CountryCode = c)

\* C4 witness: a bucket with two records, and an upstream record whose country
\* code has no bucket because no record of that code was retained.
C4_Witness ==
    /\ bpc = "sel"
    /\ Len(payload) = 3
    /\ \E c \in DOMAIN built.Countries : Len(built.Countries[c]) = 2
    /\ \E m \in Range(payload) : m.CountryCode \notin DOMAIN built.Countries

\* C5: the Global list getMirrorInfo returns is in non-increasing Score order,
\* and records of equal Score keep their upstream order.
C5_SortedStable ==
    bpc = "sel" =>
        \A i, j \in 1..Len(built.Global) :
            i < j =>
                /\ built.Global[i].Score >= built.Global[j].Score
                /\ built.Global[i].Score = built.Global[j].Score
                      => built.Global[i].id < built.Global[j].id

\* C5 witness: three retained records, the upstream order not the sorted one,
\* two of them with equal Score.
C5_Witness ==
    /\ bpc = "sel"
    /\ Len(built.Global) = 3
    /\ built.Global[1].id = 2 /\ built.Global[2].id = 3 /\ built.Global[3].id = 1
    /\ built.Global[1].Score = built.Global[2].Score

\* C6: a handler that reads the atomic.Value before the first Store gets an
\* empty MirrorStatus and goes on to a response: the read does not crash it.
C6_ReadBeforePublish ==
    \A h \in Handlers : ~(hs[h].pc = "panic" /\ hs[h].c = Nil)

\* C7: a GET handled on a MirrorStatus with an empty list is answered with one
\* 500 and nothing else: no selection, no indexing, no second response.
C7_EmptyListOnly500 ==
    \A h \in Holding :
        (hs[h].pc \in {"done", "panic"} /\ Len(heap[hs[h].c].Global) = 0) =>
            /\ hs[h].pc = "done"
            /\ hs[h].resp = <<Write(500)>>
            /\ hs[h].mirror = NoMirror

\* C8: a request whose method is not GET is answered 405, whatever the
\* atomic.Value holds, without a Load, a selection or a change of the path.
C8_MethodNotAllowed ==
    \A h \in Handlers :
        (hs[h].pc # "idle" /\ hs[h].req.method # "GET") =>
            /\ hs[h].pc = "done"
            /\ hs[h].resp = <<Write(405)>>
            /\ hs[h].c = Nil
            /\ hs[h].mirror = NoMirror
            /\ hs[h].path = (IF variant = "sel" THEN StripPrefix(hs[h].req)
                             ELSE hs[h].req.path)

\* C8 witness: a POST to the country handler answered 405 while the other
\* handler holds a populated MirrorStatus it loaded.
C8_Witness ==
    \E h, g \in Handlers :
        /\ hs[h].pc = "done" /\ hs[h].req.method = "POST" /\ hs[h].req.kind = "country"
        /\ hs[g].pc = "loaded" /\ Len(heap[hs[g].c].Global) > 0

\* C9: a fetch attempt that is not the first starts only after a tick of the
\* ticker was taken since the attempt before it, failed or not.
C9_TickBetweenFetches ==
    upc = "fetch" => prev \in {"start", "tick"}

\* C10: main receives the readiness signal at most once, and only when a
\* MirrorStatus has been stored; after it the loop neither sends nor closes
\* again (which would block or panic) and goes on to its ticks.
C10_SignalOnce ==
    /\ signals <= 1
    /\ signals = 1 => (status # Nil /\ once)
    /\ (variant = "sel" /\ mainpc = "serve") <=> signals = 1
    /\ upc # "panic"
    /\ (signals = 1 /\ upc \in {"send", "close"}) => ~doneClosed /\ upc = "close"
    /\ doneClosed => signals = 1

\* C10 witness: the signal was delivered, the channel closed, and a second
\* MirrorStatus has been stored since, the loop waiting for its next tick.
C10_Witness ==
    /\ variant = "sel" /\ signals = 1 /\ doneClosed /\ upc = "tick"
    /\ \E h \in Handlers : hs[h].c # Nil /\ hs[h].c # status

\* ---- the request harness: what a request asks for, read off its path

\* the handler of the harness and the path below its mount prefix
RH == hs["h1"]
SubPath == Drop(RH.req.path, Len(CountryPrefix))

\* where the segment that starts at position i of q ends
SegEnd(q, i) ==
    IF \E k \in i..Len(q) : q[k] = "/"
    THEN (CHOOSE k \in i..Len(q) : q[k] = "/" /\ \A j \in i..(k - 1) : q[j] # "/") - 1
    ELSE Len(q)

\* the country segment: the first segment below /country
CountrySegment == SubSeq(SubPath, 2, SegEnd(SubPath, 2))

\* what follows the country segment
AfterCountry == Drop(SubPath, SegEnd(SubPath, 2))

\* the last segment of the path
LastSlash(q) == CHOOSE k \in 1..Len(q) : q[k] = "/" /\ \A j \in (k + 1)..Len(q) : q[j] # "/"
LastSegment == Drop(SubPath, LastSlash(SubPath))

\* a segment of exactly two letters, in any case, and the code it spells
IsTwoLetters(seg) ==
    Len(seg) = 2 /\ \A i \in 1..2 : seg[i] \in Lower \cup Upper
Spells(seg) ==
    IF seg[1] \in {"u", "U"} /\ seg[2] \in {"s", "S"} THEN "US"
    ELSE IF seg[1] \in {"d", "D"} /\ seg[2] \in {"e", "E"} THEN "DE"
    ELSE "??"

\* the non-empty segments of a path, in order
RECURSIVE Segments(_)
Segments(q) ==
    IF Len(q) = 0 THEN <<>>
    ELSE IF q[1] = "/" THEN Segments(Tail(q))
    ELSE <<SubSeq(q, 1, SegEnd(q, 1))>> \o Segments(Drop(q, SegEnd(q, 1)))

\* the retained mirrors of a MirrorStatus with a country code
Retained(st, code) == {m \in Range(st.Global) : m.CountryCode = code}

\* a GET of the country handler that has been answered
CountryAnswered(v) ==
    /\ variant = v
    /\ RH.pc = "done" /\ RH.req.kind = "country" /\ RH.req.method = "GET"

\* C11: the country selector takes a country segment of exactly two letters
\* in any letter case, looks the code up in upper case, and refuses every
\* path whose country segment is not exactly two letters.
C11_AnyCaseCode ==
    (CountryAnswered("sel") /\ Len(heap[status].Global) > 0) =>
        /\ (IsTwoLetters(CountrySegment)
            /\ Retained(heap[status], Spells(CountrySegment)) # {}) =>
                /\ RH.mirror # NoMirror
                /\ RH.mirror.CountryCode = Spells(CountrySegment)
        /\ ~IsTwoLetters(CountrySegment) =>
                /\ RH.mirror = NoMirror
                /\ RH.resp = <<Write(404)>>

\* the segment each variant reads the code from: the first below /country in
\* the selector variant, the last of the path in the random variant
ParsedSegment == IF variant = "sel" THEN CountrySegment ELSE LastSegment

\* C12: a GET of the country handler on a non-empty MirrorStatus whose path
\* carries no two-letter code, or a code no retained mirror has, is answered
\* 404 and nothing else, with no redirect, the request path left as it was.
C12_NotFound ==
    (/\ RH.pc = "done" /\ RH.req.kind = "country" /\ RH.req.method = "GET"
     /\ Len(heap[status].Global) > 0
     /\ \/ ~IsTwoLetters(ParsedSegment)
        \/ Retained(heap[status], Spells(ParsedSegment)) = {}) =>
        /\ RH.resp = <<Write(404)>>
        /\ RH.mirror = NoMirror
        /\ RH.path = (IF variant = "sel" THEN SubPath ELSE RH.req.path)

\* C12 witness: the selector variant has answered 404 to a path with a
\* well-formed code no retained mirror has, followed by a sub-path.
C12_Witness ==
    /\ CountryAnswered("sel")
    /\ Len(heap[status].Global) > 0
    /\ CountrySegment = <<"s", "u">>
    /\ Len(AfterCountry) > 1
    /\ RH.resp = <<Write(404)>>

\* C13: the target of a successful country request is the mirror's host with
\* the mirror's path segments followed by the segments of the request path
\* after the country code, in order and unchanged; the code is not in it.
C13_RedirectTarget ==
    (CountryAnswered("sel") /\ RH.resp # <<>> /\ RH.resp[1].code = 302) =>
        /\ RH.resp[1].loc[1] = RH.mirror.URL.host
        /\ Segments(RH.resp[1].loc[2])
             = Segments(RH.mirror.URL.path) \o Segments(AfterCountry)

\* C13 witness: /us/s/u redirected to a mirror whose own path is /a/: the
\* target path is /a/s/u.
C13_Witness ==
    /\ CountryAnswered("sel")
    /\ SubPath = <<"/", "u", "s", "/", "s", "/", "u">>
    /\ RH.mirror # NoMirror
    /\ RH.mirror.URL.path = <<"/", "a", "/">>
    /\ RH.resp = <<Redirect(RH.mirror.URL.host, <<"/", "a", "/", "s", "/", "u">>)>>

\* the position of a mirror in a list
PosIn(q, m) == CHOOSE i \in 1..Len(q) : q[i] = m

\* C17: in the selector variant a successful selection is the head of its
\* scope in the loaded MirrorStatus: Global[0] for a global request, and for a
\* country request the first mirror of Global, in rank order, with the
\* requested code; it is a member of Global and none of its scope outranks it.
C17_HeadOfScope ==
    (variant = "sel" /\ RH.pc = "done" /\ RH.mirror # NoMirror) =>
        LET st == heap[RH.c]
            scope == IF RH.req.kind = "global" THEN Range(st.Global)
                     ELSE Retained(st, Spells(CountrySegment))
        IN  /\ RH.mirror \in Range(st.Global)
            /\ RH.mirror \in scope
            /\ \A m \in scope :
                  /\ PosIn(st.Global, RH.mirror) <= PosIn(st.Global, m)
                  /\ RH.mirror.Score >= m.Score
            /\ RH.req.kind = "global" => RH.mirror = st.Global[1]
            /\ RH.req.kind = "country" =>
                  RH.mirror = st.Countries[Spells(CountrySegment)][1]

\* C17 witness: a country request answered from a bucket of two mirrors whose
\* head is not the head of Global.
C17_Witness ==
    /\ CountryAnswered("sel")
    /\ RH.mirror # NoMirror
    /\ heap[RH.c].Global[1] # RH.mirror
    /\ Len(heap[RH.c].Countries["US"]) = 2

\* C14: in the selector variant the server takes requests only after the
\* first Store: whenever a handler is at status.Load() the atomic.Value holds
\* a published MirrorStatus, however many fetches failed before, and no
\* handler panics.
C14_LoadAfterPublish ==
    variant = "sel" =>
        /\ mainpc = "serve" => (status # Nil /\ pubNo[status] >= 1)
        /\ \A h \in Handlers :
              /\ hs[h].pc # "idle" => mainpc = "serve"
              /\ hs[h].pc = "load" => status # Nil
              /\ hs[h].pc # "panic"

\* C14 witness: after two failed fetches and the first publish a handler of
\* the selector variant has loaded the published MirrorStatus.
C14_Witness ==
    /\ variant = "sel"
    /\ fails >= 2
    /\ pubs = 1
    /\ \E h \in Handlers : hs[h].pc = "loaded" /\ hs[h].c = status

C16_ReadsOrdered ==
    [][/\ \A s, t \in Referenced \ {newM} : s # t => pubNo[s] # pubNo[t]
       /\ status # Nil => pubNo[status] = pubs
       /\ \A h \in Handlers :
             (hs[h].pc = "load" /\ hs'[h].pc = "loaded") =>
                 /\ pubNo'[hs'[h].c] = pubs
                 /\ seen'[h] = pubs
                 /\ seen'[h] >= seen[h]]_vars

\* C16 witness: a handler has loaded the second publish while another still
\* holds the first.
C16_Witness ==
    \E h, g \in Handlers :
        /\ hs[h].pc = "loaded" /\ pubNo[hs[h].c] = 2 /\ seen[h] = 2
        /\ hs[g].pc \in {"loaded", "done"} /\ hs[g].c # Nil /\ pubNo[hs[g].c] = 1

\* C18: a published MirrorStatus is never written again: every step leaves
\* every published object that is still pointed to as it was, and the
\* atomic.Value changes only by status.Store of the pointer update built.
C18_PublishedImmutable ==
    [][/\ \A s \in Slots : (pubNo[s] >= 1 /\ s \in Referenced') => heap'[s] = heap[s]
       /\ status' # status => (upc = "store" /\ status' = newM)]_vars

\* C18 witness: after a second publish with other content a handler still
\* works on the first MirrorStatus, which is what the builder made it.
C18_Witness ==
    \E h \in Handlers :
        /\ hs[h].pc = "loaded"
        /\ hs[h].c # status
        /\ pubNo[hs[h].c] = 1 /\ pubs = 2
        /\ heap[hs[h].c] \in BuiltObjects
        /\ heap[hs[h].c] # heap[status]

\* C19: for every threshold the mirrors the country handler of the random
\* variant can pick for a code are the retained mirrors with that code, the
\* bucket the selector variant builds for it.
C19_SameCandidates ==
    bpc = "rand" =>
        \A code \in CountryCodes :
            /\ Range(CountryCandidates(built, code)) = Retained(built, code)
            /\ Range(CountryCandidates(built, code))
                 = (LET cs == getMirrorInfo(payload, minCompletion).Countries
                    IN  IF code \in DOMAIN cs THEN Range(cs[code]) ELSE {})

====
